---- MODULE Spec2Model ----
(***************************************************************************)
(* Model of finally.py: a Dash page whose single callback, update_graph,   *)
(* fetches a price history (fetch_stock_data), looks up the company name   *)
(* (fetch_company_name), extrapolates a least-squares line over the next   *)
(* business days (simulate_future_prices) and renders a figure and two     *)
(* texts.                                                                  *)
(*                                                                         *)
(* Dates are day numbers, day 0 being a Monday, so that pandas' weekday    *)
(* (Monday = 0 .. Sunday = 6) is d % 7.  Historical closes are whole       *)
(* dollars; fitted and projected values are exact rationals num/den, the   *)
(* not-a-number of numpy being 0/0.                                        *)
(***************************************************************************)
EXTENDS Integers, Sequences, FiniteSets, TLC

VARIABLES
    n_clicks,       \* property n_clicks of update-button
    symbol,         \* property value of stock-dropdown
    period,         \* property value of period-dropdown
    graph_type,     \* property value of graph-type-dropdown
    hoverData,      \* property hoverData of stock-graph
    figure,         \* output: property figure of stock-graph
    company_name,   \* output: children of company-name
    price_label,    \* output: children of price-label
    invocation,     \* the latest run of the callback: what it called, fetched, returned
    lapack,         \* how this build's least-squares solver answers a matrix holding a nan
    pc,             \* function-level specifications: "ready" before the call, "done" after
    input,          \* function-level specifications: the arguments of the call
    output          \* function-level specifications: what the call produced

vars == <<n_clicks, symbol, period, graph_type, hoverData, figure,
          company_name, price_label, invocation, lapack, pc, input, output>>

uiVars == <<n_clicks, symbol, period, graph_type, hoverData, figure,
            company_name, price_label, invocation, lapack>>

-----------------------------------------------------------------------------
(* Bounds of the model *)

\* refresh clicks in one session
MaxClicks == 2
\* longest historical series given to simulate_future_prices on its own
MaxLen == 3
\* last day number a historical row may carry
MaxDate == 6
\* largest horizon given to simulate_future_prices on its own
MaxDays == 3

-----------------------------------------------------------------------------
(* Numbers *)

Rat(n, d) == [num |-> n, den |-> d]

\* numpy's nan: 0/0
NaN == Rat(0, 0)

IsNaN(r) == r.den = 0

\* an int64 close as the float64 it becomes in a float column
ToFloat(c) == Rat(c, 1)

RatEq(a, b) == /\ ~IsNaN(a)
               /\ ~IsNaN(b)
               /\ a.num * b.den = b.num * a.den

RatAdd(a, b) == IF IsNaN(a) \/ IsNaN(b) THEN NaN
                ELSE Rat(a.num * b.den + b.num * a.den, a.den * b.den)

RatScale(a, k) == IF IsNaN(a) THEN NaN ELSE Rat(a.num * k, a.den)

\* num/den (den > 0) rounded to the nearest integer, ties to even
RoundHalfEven(num, den) ==
    LET q == num \div den
        r == num % den
    IN  IF 2 * r < den THEN q
        ELSE IF 2 * r > den THEN q + 1
        ELSE IF q % 2 = 0 THEN q ELSE q + 1

\* f"{price:.2f}": the hundredths that are printed
Format2f(price) == RoundHalfEven(100 * price.num, price.den)

RECURSIVE Sum(_)
Sum(s) == IF s = <<>> THEN 0 ELSE Head(s) + Sum(Tail(s))

Dot(a, b) == Sum([i \in 1..Len(a) |-> a[i] * b[i]])

\* np.arange(n)
arange(n) == [i \in 1..n |-> i - 1]

\* pandas: Monday = 0 .. Sunday = 6
weekday(d) == d % 7

-----------------------------------------------------------------------------
(* The market-data provider (yfinance), seen from the callback.             *)
(* Ticker.history either returns a frame of rows [Date, Close], sorted by   *)
(* date, or fails with an exception; Ticker.info either returns a dict,     *)
(* with or without the key longName, or fails with an exception.            *)

HistoryOk(rows) == [raised |-> FALSE, rows |-> rows]
HistoryError == [raised |-> TRUE, rows |-> <<>>]

InfoOk(name) == [raised |-> FALSE, hasLongName |-> TRUE, longName |-> name]
InfoNoName == [raised |-> FALSE, hasLongName |-> FALSE, longName |-> ""]
InfoError == [raised |-> TRUE, hasLongName |-> FALSE, longName |-> ""]

\* What LAPACK's least-squares driver does with a matrix that holds a nan:
\* it reports that the SVD did not converge (numpy raises LinAlgError), or it
\* returns nan coefficients; which one depends on the build, and stays the
\* same while the process runs.
LapackOutcomes == {"LinAlgError", "nan"}

-----------------------------------------------------------------------------
(* fetch_stock_data *)

\* a mask that lets Saturdays through: weekday <= 5
IsWeekdayRowOffByOne(row) == weekday(row.Date) <= 5

\* the mask data.index.weekday < 5
IsWeekdayRow(row) == weekday(row.Date) < 5

\* data[mask]: the rows the mask keeps, in their order
KeepWeekdays(rows) == SelectSeq(rows, IsWeekdayRow)

\* history is the outcome of stock.history(period=period, interval=interval)
fetch_stock_data(history) ==
    IF history.raised THEN [raised |-> TRUE, rows |-> <<>>]
    ELSE [raised |-> FALSE, rows |-> KeepWeekdays(history.rows)]

-----------------------------------------------------------------------------
(* fetch_company_name *)

DefaultCompanyName == "Company Name Not Found"

\* info is the outcome of stock.info
fetch_company_name(info) ==
    IF info.raised THEN [raised |-> TRUE, name |-> ""]
    ELSE [raised |-> FALSE,
          name |-> IF info.hasLongName THEN info.longName ELSE DefaultCompanyName]

-----------------------------------------------------------------------------
(* simulate_future_prices *)

\* np.polyfit(x, y, 1).  The Vandermonde columns [x, 1] are divided by their
\* norms before the least-squares solve: a column x of norm 0 becomes 0/0 = nan
\* and the solve gets a matrix with a nan in it.  Otherwise, with the columns
\* independent, the solution is the one of the normal equations.
polyfit(x, y, solver) ==
    LET n   == Len(x)
        sx  == Sum(x)
        sxx == Dot(x, x)
        sy  == Sum(y)
        sxy == Dot(x, y)
        det == n * sxx - sx * sx
    IN  IF n = 0 THEN [raised |-> TRUE, slope |-> NaN, intercept |-> NaN]
        ELSE IF sxx = 0
        THEN [raised |-> solver = "LinAlgError", slope |-> NaN, intercept |-> NaN]
        ELSE [raised |-> FALSE,
              slope |-> Rat(n * sxy - sx * sy, det),
              intercept |-> Rat(sy * sxx - sx * sxy, det)]

\* np.poly1d(coef)(i)
poly(coef, i) == RatAdd(RatScale(coef.slope, i), coef.intercept)

\* positions that skip the first one after the data: np.arange(len(data) + 1, ...)
FuturePositionsShifted(n, days) == [k \in 1..days |-> n + k]

\* np.arange(len(data), len(data) + days)
FuturePositions(n, days) == [k \in 1..days |-> n + k - 1]

\* freq='B' rolls a Saturday or Sunday forward to the Monday
RollForward(d) == IF weekday(d) < 5 THEN d
                  ELSE IF weekday(d) = 5 THEN d + 2 ELSE d + 1

\* pd.date_range(start, periods=periods, freq='B')
RECURSIVE date_range(_, _)
date_range(start, periods) ==
    IF periods = 0 THEN <<>>
    ELSE LET first == RollForward(start)
         IN  <<first>> \o date_range(first + 1, periods - 1)

\* data.index[-1] + timedelta(days=1)
FutureStart(data) == data[Len(data)].Date + 1

simulate_future_prices(data, days, solver) ==
    LET n    == Len(data)
        x    == arange(n)
        y    == [i \in 1..n |-> data[i].Close]
        coef == polyfit(x, y, solver)
    IN  IF coef.raised THEN [raised |-> TRUE, rows |-> <<>>]
        ELSE LET future_dates  == date_range(FutureStart(data), days)
                 positions     == FuturePositions(n, days)
                 future_prices == [k \in 1..days |-> poly(coef, positions[k])]
             IN  [raised |-> FALSE,
                  rows |-> [k \in 1..days |->
                               [Date |-> future_dates[k], Close |-> future_prices[k]]]]

-----------------------------------------------------------------------------
(* update_graph *)

\* the projection horizon update_graph asks for: days=5
Horizon == 5

\* hoverData of a graph nobody hovered over
None == [points |-> <<>>]

\* hoverData after a hover over the point (x, y)
HoverOver(pt) == [points |-> <<pt>>]

\* go.Figure()
EmptyFigure == [type |-> "empty", points |-> <<>>, symbol |-> "", period |-> ""]

PromptText == [text |-> "Please click 'Update' to fetch data", name |-> ""]
NoDataText == [text |-> "Error: No data available", name |-> ""]
\* f"Company: {company_name}"
CompanyText(name) == [text |-> "Company: ", name |-> name]

PriceNotAvailable ==
    [text |-> "Price: Not Available", symbol |-> "", date |-> -1, hundredths |-> 0]
\* f"Last Price for {symbol}: ${last_price:.2f}"
LastPriceLabel(sym, last_price) ==
    [text |-> "Last Price for", symbol |-> sym, date |-> -1,
     hundredths |-> Format2f(ToFloat(last_price))]
\* f"Price on {date}: ${price:.2f}"
HoverPriceLabel(date, price) ==
    [text |-> "Price on", symbol |-> "", date |-> date, hundredths |-> Format2f(price)]

\* a guard that lets the first run through: if n_clicks < 0
NotClickedNegative(nc) == nc < 0

\* if n_clicks == 0
NotClicked(nc) == nc = 0

\* if hoverData
HasHover(hov) == hov # None

\* pd.concat([data, future_data]) as the points (x, y) of the trace
combined_data(data, future_data) ==
    [i \in 1..Len(data) |-> [x |-> data[i].Date, y |-> ToFloat(data[i].Close)]]
    \o [k \in 1..Len(future_data) |-> [x |-> future_data[k].Date, y |-> future_data[k].Close]]

\* go.Scatter for 'line', go.Bar for anything else, with the title of the layout
MakeFigure(gt, sym, per, points) ==
    [type |-> IF gt = "line" THEN "line" ELSE "bar",
     points |-> points, symbol |-> sym, period |-> per]

\* data['Close'].iloc[-1]
last_price(data) == data[Len(data)].Close

\* price_label as update_graph leaves it
PriceLabel(sym, data, hov) ==
    IF HasHover(hov)
    THEN LET point == hov.points[1]
         IN  HoverPriceLabel(point.x, point.y)
    ELSE LastPriceLabel(sym, last_price(data))

Return(fig, company, label, calls, data) ==
    [raised |-> FALSE, figure |-> fig, company_name |-> company,
     price_label |-> label, calls |-> calls, data |-> data]

\* an exception leaves update_graph: the callback has no outputs
Raise(calls, data) ==
    [raised |-> TRUE,
     figure |-> [type |-> "", points |-> <<>>, symbol |-> "", period |-> ""],
     company_name |-> [text |-> "", name |-> ""],
     price_label |-> [text |-> "", symbol |-> "", date |-> -1, hundredths |-> 0],
     calls |-> calls, data |-> data]

\* history and info are what the provider answers during this run, solver is
\* the build's least-squares solver
update_graph(nc, sym, per, gt, hov, history, info, solver) ==
    IF NotClicked(nc)
    THEN Return(EmptyFigure, PromptText, PriceNotAvailable, {}, <<>>)
    ELSE
    LET fetched == fetch_stock_data(history)
        data    == fetched.rows
        company == fetch_company_name(info)
        future  == simulate_future_prices(data, Horizon, solver)
    IN  IF fetched.raised
        THEN Raise({"fetch_stock_data"}, <<>>)
        ELSE IF company.raised
        THEN Raise({"fetch_stock_data", "fetch_company_name"}, data)
        ELSE IF data = <<>>
        THEN Return(EmptyFigure, NoDataText, PriceNotAvailable,
                    {"fetch_stock_data", "fetch_company_name"}, data)
        ELSE IF future.raised
        THEN Raise({"fetch_stock_data", "fetch_company_name",
                    "simulate_future_prices"}, data)
        ELSE Return(MakeFigure(gt, sym, per, combined_data(data, future.rows)),
                    CompanyText(company.name),
                    PriceLabel(sym, data, hov),
                    {"fetch_stock_data", "fetch_company_name",
                     "simulate_future_prices"}, data)

-----------------------------------------------------------------------------
(* The page: the layout's options and what the provider holds for them      *)

\* the options of stock-dropdown the model keeps (of STOCK_SYMBOLS)
STOCK_SYMBOLS == {"AAPL", "GOOGL", "TWTR"}

\* the options of period-dropdown the model keeps
Periods == {"1d", "1mo"}

\* the options of graph-type-dropdown
GraphTypes == {"line", "bar"}

Row(d, c) == [Date |-> d, Close |-> c]

\* What the provider holds for a symbol and a period during the session:
\* one row for one day, a few rows for a month (one of AAPL's on a Saturday),
\* nothing for the delisted TWTR.
History(sym, per) ==
    IF sym = "TWTR" THEN <<>>
    ELSE IF sym = "AAPL"
    THEN IF per = "1d" THEN <<Row(7, 13)>>
         ELSE <<Row(3, 10), Row(4, 12), Row(5, 99), Row(7, 13)>>
    ELSE IF per = "1d" THEN <<Row(7, 26)>>
         ELSE <<Row(3, 20), Row(4, 22), Row(7, 24)>>

\* the info dict the provider holds for a symbol: TWTR's has no longName
Info(sym) ==
    IF sym = "AAPL" THEN InfoOk("Apple Inc.")
    ELSE IF sym = "GOOGL" THEN InfoOk("Alphabet Inc.")
    ELSE InfoNoName

\* a request is answered, or fails
HistoryOutcomes(sym, per) == {HistoryOk(History(sym, per)), HistoryError}

InfoOutcomes(sym) == {Info(sym), InfoError}

-----------------------------------------------------------------------------
(* The session: Dash runs update_graph once when the page loads and once    *)
(* for every change of one of its five inputs.  A run that raises changes   *)
(* no output: the page keeps showing what it showed.                        *)

\* what one run of update_graph was given, called, fetched and whether it raised
Invocation(nc, sym, per, gt, hov, result) ==
    [n_clicks |-> nc, symbol |-> sym, period |-> per, graph_type |-> gt,
     hoverData |-> hov, raised |-> result.raised, calls |-> result.calls,
     data |-> result.data]

\* the run at page load, with the layout's values: n_clicks=0, 'AAPL', '1mo', 'line'
PageLoad == update_graph(0, "AAPL", "1mo", "line", None,
                         HistoryError, InfoError, "LinAlgError")

InitUI ==
    /\ n_clicks = 0
    /\ symbol = "AAPL"
    /\ period = "1mo"
    /\ graph_type = "line"
    /\ hoverData = None
    /\ figure = PageLoad.figure
    /\ company_name = PageLoad.company_name
    /\ price_label = PageLoad.price_label
    /\ invocation = Invocation(0, "AAPL", "1mo", "line", None, PageLoad)
    /\ lapack \in LapackOutcomes

Init ==
    /\ InitUI
    /\ pc = "session"
    /\ input = <<>>
    /\ output = <<>>

\* one run of the callback with the inputs as they are after the event
Callback(nc, sym, per, gt, hov) ==
    \E history \in HistoryOutcomes(sym, per), info \in InfoOutcomes(sym) :
        LET result == update_graph(nc, sym, per, gt, hov, history, info, lapack)
        IN  /\ invocation' = Invocation(nc, sym, per, gt, hov, result)
            /\ IF result.raised
               THEN UNCHANGED <<figure, company_name, price_label>>
               ELSE /\ figure' = result.figure
                    /\ company_name' = result.company_name
                    /\ price_label' = result.price_label

Click ==
    /\ n_clicks < MaxClicks
    /\ n_clicks' = n_clicks + 1
    /\ UNCHANGED <<symbol, period, graph_type, hoverData>>
    /\ Callback(n_clicks + 1, symbol, period, graph_type, hoverData)
    /\ UNCHANGED <<lapack, pc, input, output>>

SelectSymbol ==
    \E sym \in STOCK_SYMBOLS \ {symbol} :
        /\ symbol' = sym
        /\ UNCHANGED <<n_clicks, period, graph_type, hoverData>>
        /\ Callback(n_clicks, sym, period, graph_type, hoverData)
        /\ UNCHANGED <<lapack, pc, input, output>>

SelectPeriod ==
    \E per \in Periods \ {period} :
        /\ period' = per
        /\ UNCHANGED <<n_clicks, symbol, graph_type, hoverData>>
        /\ Callback(n_clicks, symbol, per, graph_type, hoverData)
        /\ UNCHANGED <<lapack, pc, input, output>>

SelectGraphType ==
    \E gt \in GraphTypes \ {graph_type} :
        /\ graph_type' = gt
        /\ UNCHANGED <<n_clicks, symbol, period, hoverData>>
        /\ Callback(n_clicks, symbol, period, gt, hoverData)
        /\ UNCHANGED <<lapack, pc, input, output>>

\* the points of the shown figure the pointer can rest on (a nan is not drawn)
Hoverable(fig) == {fig.points[i] : i \in {j \in 1..Len(fig.points) : ~IsNaN(fig.points[j].y)}}

\* the pointer comes to rest on a point of the shown figure; hoverData keeps
\* that point until the next hover
Hover ==
    \E pt \in Hoverable(figure) :
        /\ HoverOver(pt) # hoverData
        /\ hoverData' = HoverOver(pt)
        /\ UNCHANGED <<n_clicks, symbol, period, graph_type>>
        /\ Callback(n_clicks, symbol, period, graph_type, HoverOver(pt))
        /\ UNCHANGED <<lapack, pc, input, output>>

Next == Click \/ SelectSymbol \/ SelectPeriod \/ SelectGraphType \/ Hover

Spec == Init /\ [][Next]_vars

\* the sessions in which no run of the callback raises
ClickAnswered == Click /\ ~invocation'.raised
SelectSymbolAnswered == SelectSymbol /\ ~invocation'.raised
SelectPeriodAnswered == SelectPeriod /\ ~invocation'.raised
SelectGraphTypeAnswered == SelectGraphType /\ ~invocation'.raised
HoverAnswered == Hover /\ ~invocation'.raised

NextAnswered ==
    \/ ClickAnswered
    \/ SelectSymbolAnswered
    \/ SelectPeriodAnswered
    \/ SelectGraphTypeAnswered
    \/ HoverAnswered

SpecAnswered == Init /\ [][NextAnswered]_vars

-----------------------------------------------------------------------------
(* Function-level specifications: the arguments are drawn in the initial    *)
(* state and one step applies the function to them.                         *)

\* the closes a bounded historical series draws from
Closes == {10, 12, 14}

\* every frame of at most MaxLen rows, sorted by strictly increasing date
AllSeries ==
    LET rows == {Row(d, c) : d \in 0..MaxDate, c \in Closes}
    IN  UNION {{ser \in [1..n -> rows] :
                   \A i \in 1..(n - 1) : ser[i].Date < ser[i + 1].Date}
               : n \in 0..MaxLen}

InitFetch ==
    /\ InitUI
    /\ pc = "ready"
    /\ input \in {HistoryError} \cup {HistoryOk(rows) : rows \in AllSeries}
    /\ output = <<>>

FetchStep ==
    /\ pc = "ready"
    /\ output' = fetch_stock_data(input)
    /\ pc' = "done"
    /\ UNCHANGED <<input, uiVars>>

SpecFetch == InitFetch /\ [][FetchStep]_vars

InitProject ==
    /\ InitUI
    /\ pc = "ready"
    /\ input \in [data : AllSeries, days : 1..MaxDays]
    /\ output = <<>>

SimulateStep ==
    /\ pc = "ready"
    /\ output' = simulate_future_prices(input.data, input.days, lapack)
    /\ pc' = "done"
    /\ UNCHANGED <<input, uiVars>>

SpecProject == InitProject /\ [][SimulateStep]_vars

\* provider answers update_graph is tried on: the session's, a frame of
\* weekend rows only, and the perfectly linear 10, 12, 14
SampleHistories ==
    {HistoryError}
    \cup {HistoryOk(History(sym, per)) : sym \in STOCK_SYMBOLS, per \in Periods}
    \cup {HistoryOk(<<Row(5, 99), Row(6, 98)>>),
          HistoryOk(<<Row(0, 10), Row(1, 12), Row(2, 14)>>)}

SampleInfos == {InfoOk("Apple Inc."), InfoNoName, InfoError}

\* hoverData update_graph is tried on: none, a historical point, projected
\* points with fractions of a cent, a negative projected value
SampleHovers ==
    {None}
    \cup {HoverOver([x |-> 4, y |-> ToFloat(12)]),
          HoverOver([x |-> 8, y |-> Rat(1612, 100)]),
          HoverOver([x |-> 9, y |-> Rat(1, 8)]),
          HoverOver([x |-> 10, y |-> Rat(-7, 3)])}

InitCall ==
    /\ InitUI
    /\ pc = "ready"
    /\ input \in [n_clicks : 0..MaxClicks, symbol : STOCK_SYMBOLS, period : Periods,
                  graph_type : GraphTypes, hoverData : SampleHovers,
                  history : SampleHistories, info : SampleInfos]
    /\ output = <<>>

CallStep ==
    /\ pc = "ready"
    /\ output' = update_graph(input.n_clicks, input.symbol, input.period,
                              input.graph_type, input.hoverData,
                              input.history, input.info, lapack)
    /\ pc' = "done"
    /\ UNCHANGED <<input, uiVars>>

SpecCall == InitCall /\ [][CallStep]_vars

-----------------------------------------------------------------------------
(* Properties of update_graph, under SpecCall *)

Loads == {"fetch_stock_data", "fetch_company_name"}

\* what fetch_stock_data hands to update_graph in the call of this state
Fetched == fetch_stock_data(input.history)

\* C1: a call with n_clicks = 0 returns the empty figure, the prompt and
\* "Price: Not Available" whatever symbol, period, graph_type and hoverData
\* are, and calls neither fetch_stock_data nor fetch_company_name.
C1_Unrefreshed ==
    (pc = "done" /\ input.n_clicks = 0) =>
        /\ ~output.raised
        /\ output.figure = EmptyFigure
        /\ output.company_name = PromptText
        /\ output.price_label = PriceNotAvailable
        /\ output.calls \cap Loads = {}

\* C1's case: no click yet, but a hover, another symbol, period and chart
\* kind, and a provider that would have answered with rows
C1_Witness ==
    /\ pc = "done"
    /\ input.n_clicks = 0
    /\ input.hoverData # None
    /\ input.symbol = "GOOGL"
    /\ input.period = "1d"
    /\ input.graph_type = "bar"
    /\ ~input.history.raised
    /\ input.history.rows # <<>>
    /\ output.company_name = PromptText

\* C2: with n_clicks > 0 and an empty series from fetch_stock_data,
\* update_graph returns, without raising, the empty figure, "Error: No data
\* available" and "Price: Not Available", and never calls
\* simulate_future_prices, for every graph_type and hoverData.
C2_NoData ==
    (pc = "done" /\ input.n_clicks > 0 /\ ~Fetched.raised /\ Fetched.rows = <<>>) =>
        /\ ~output.raised
        /\ output.figure = EmptyFigure
        /\ output.company_name = NoDataText
        /\ output.price_label = PriceNotAvailable
        /\ "simulate_future_prices" \notin output.calls

\* What holds of C2's case when the name lookup answers: the no-data display.
C2_NoDataWhenNameAnswers ==
    (pc = "done" /\ input.n_clicks > 0 /\ ~Fetched.raised /\ Fetched.rows = <<>>
     /\ ~input.info.raised) =>
        /\ ~output.raised
        /\ output.figure = EmptyFigure
        /\ output.company_name = NoDataText
        /\ output.price_label = PriceNotAvailable
        /\ "simulate_future_prices" \notin output.calls

\* C3: a provider error during a request (the history call or the info lookup
\* failing) surfaces as an empty series and ends the request in the no-data
\* display; none leaves update_graph as an exception.
C3_ProviderError ==
    (pc = "done" /\ input.n_clicks > 0 /\ (input.history.raised \/ input.info.raised)) =>
        /\ ~output.raised
        /\ output.figure = EmptyFigure
        /\ output.company_name = NoDataText
        /\ output.price_label = PriceNotAvailable

\* the points of the returned figure that come after the historical ones
Projected == SubSeq(output.figure.points, Len(Fetched.rows) + 1, Len(output.figure.points))

\* C6: with a series of exactly one point (and a provider that answers), the
\* fit is the constant line: update_graph completes with the chart and the
\* price label, and every projected value equals the single close.
C6_SinglePoint ==
    (pc = "done" /\ input.n_clicks > 0 /\ ~input.history.raised /\ ~input.info.raised
     /\ Len(Fetched.rows) = 1) =>
        /\ ~output.raised
        /\ output.figure.type \in {"line", "bar"}
        /\ output.company_name.text = "Company: "
        /\ output.price_label.text \in {"Last Price for", "Price on"}
        /\ Len(Projected) = Horizon
        /\ \A k \in 1..Len(Projected) :
               RatEq(Projected[k].y, ToFloat(Fetched.rows[1].Close))

\* C7: in a request with n_clicks > 0 and a non-empty series, the price label
\* shows the last historical close when hoverData is absent, and the date and
\* value of the hovered point, formatted the same way for any point, when
\* hoverData is present.
C7_PriceLabel ==
    (pc = "done" /\ input.n_clicks > 0 /\ ~Fetched.raised /\ Fetched.rows # <<>>) =>
        /\ ~output.raised
        /\ (input.hoverData = None =>
               output.price_label =
                   [text |-> "Last Price for", symbol |-> input.symbol, date |-> -1,
                    hundredths |-> 100 * Fetched.rows[Len(Fetched.rows)].Close])
        /\ (input.hoverData # None =>
               output.price_label =
                   [text |-> "Price on", symbol |-> "",
                    date |-> input.hoverData.points[1].x,
                    hundredths |-> Format2f(input.hoverData.points[1].y)])

\* What holds of C7's case whenever update_graph returns: the label's content.
C7_PriceLabelWhenReturned ==
    (pc = "done" /\ input.n_clicks > 0 /\ ~Fetched.raised /\ Fetched.rows # <<>>
     /\ ~output.raised) =>
        /\ (input.hoverData = None =>
               output.price_label =
                   [text |-> "Last Price for", symbol |-> input.symbol, date |-> -1,
                    hundredths |-> 100 * Fetched.rows[Len(Fetched.rows)].Close])
        /\ (input.hoverData # None =>
               output.price_label =
                   [text |-> "Price on", symbol |-> "",
                    date |-> input.hoverData.points[1].x,
                    hundredths |-> Format2f(input.hoverData.points[1].y)])

\* What C9 gives the chart, under SpecCall: every point of a returned figure,
\* historical or projected, is dated Monday to Friday.
C9_ChartBusinessDays ==
    (pc = "done" /\ ~output.raised) =>
        \A i \in 1..Len(output.figure.points) :
            weekday(output.figure.points[i].x) \in {0, 1, 2, 3, 4}

-----------------------------------------------------------------------------
(* Properties of fetch_stock_data, under SpecFetch *)

\* the places of the provider's rows whose date is a Monday to a Friday
BusinessPlaces(rows) == {i \in 1..Len(rows) : weekday(rows[i].Date) \in {0, 1, 2, 3, 4}}

\* the k-th of a set of places, in increasing order
Nth(places, k) == CHOOSE i \in places : Cardinality({j \in places : j <= i}) = k

\* C9: for every provider response, fetch_stock_data returns exactly the rows
\* whose date has weekday 0 to 4, in their original order: no weekend row is
\* returned and no business-day row is dropped.
C9_BusinessDaysOnly ==
    (pc = "done" /\ ~input.raised) =>
        LET places == BusinessPlaces(input.rows)
        IN  /\ ~output.raised
            /\ \A k \in 1..Len(output.rows) : weekday(output.rows[k].Date) \in {0, 1, 2, 3, 4}
            /\ Len(output.rows) = Cardinality(places)
            /\ \A k \in 1..Len(output.rows) : output.rows[k] = input.rows[Nth(places, k)]

\* C9's case: a response whose Friday row is followed by weekend rows
C9_Witness ==
    /\ pc = "done"
    /\ ~input.raised
    /\ Len(input.rows) = 3
    /\ weekday(input.rows[1].Date) = 4
    /\ weekday(input.rows[2].Date) = 5
    /\ weekday(input.rows[3].Date) = 6
    /\ Len(output.rows) = 1
    /\ output.rows[1] = input.rows[1]

-----------------------------------------------------------------------------
(* Properties of simulate_future_prices, under SpecProject *)

LastDate == input.data[Len(input.data)].Date

IsBusinessDay(d) == weekday(d) \in {0, 1, 2, 3, 4}

\* no business day lies strictly between a and b
NoBusinessDayBetween(a, b) == \A d \in (a + 1)..(b - 1) : ~IsBusinessDay(d)

\* the dates are the business days that follow last, none skipped or repeated
FollowsOn(last, rows) ==
    /\ \A k \in 1..Len(rows) : IsBusinessDay(rows[k].Date)
    /\ Len(rows) > 0 => (rows[1].Date > last /\ NoBusinessDayBetween(last, rows[1].Date))
    /\ \A k \in 1..(Len(rows) - 1) :
           /\ rows[k].Date < rows[k + 1].Date
           /\ NoBusinessDayBetween(rows[k].Date, rows[k + 1].Date)

\* C4: for every non-empty series and every horizon days >= 1,
\* simulate_future_prices returns exactly days points, dated with the days
\* consecutive business days that follow the series' last date.
C4_ProjectionDates ==
    (pc = "done" /\ Len(input.data) >= 1) =>
        /\ ~output.raised
        /\ Len(output.rows) = input.days
        /\ FollowsOn(LastDate, output.rows)

\* What holds of C4's case whenever simulate_future_prices returns.
C4_ProjectionDatesWhenReturned ==
    (pc = "done" /\ Len(input.data) >= 1 /\ ~output.raised) =>
        /\ Len(output.rows) = input.days
        /\ FollowsOn(LastDate, output.rows)

\* What holds of C4's case for a series of two points or more.
C4_ProjectionDatesFromTwoPoints ==
    (pc = "done" /\ Len(input.data) >= 2) =>
        /\ ~output.raised
        /\ Len(output.rows) = input.days
        /\ FollowsOn(LastDate, output.rows)

\* the closes are a * i + b at the positions i = 0 .. n-1, n >= 2
IsLinear(data) ==
    /\ Len(data) >= 2
    /\ LET b == data[1].Close
           a == data[2].Close - data[1].Close
       IN  \A i \in 1..Len(data) : data[i].Close = a * (i - 1) + b

-----------------------------------------------------------------------------
(* Properties of the session, under Spec *)

\* Idle: the empty chart with the prompt
IsIdle ==
    /\ figure = EmptyFigure
    /\ company_name = PromptText
    /\ price_label = PriceNotAvailable

\* a chart with data is shown
IsChart ==
    /\ figure.type \in {"line", "bar"}
    /\ figure.points # <<>>
    /\ company_name.text = "Company: "
    /\ price_label.text \in {"Last Price for", "Price on"}

\* the explicit no-data message is shown
IsNoData ==
    /\ figure = EmptyFigure
    /\ company_name = NoDataText
    /\ price_label = PriceNotAvailable

\* Loaded: data, or the no-data message
IsLoaded == IsChart \/ IsNoData

\* the run of this step fetched again, and projected again whatever it fetched
Recomputed(inv) ==
    /\ "fetch_stock_data" \in inv.calls
    /\ inv.data # <<>> => "simulate_future_prices" \in inv.calls

\* C8: the display is Idle or Loaded and never both; it starts Idle; a
\* selector change or a hover while Idle leaves it Idle; it becomes Loaded
\* only on a refresh click; once Loaded it never returns to Idle; a chart with
\* data is shown only after a refresh click; every event after the first
\* refresh runs the fetch and the projection again (the projection of a
\* series that has points: of an empty one there is none).
C8_IdleLoaded ==
    /\ IsIdle
    /\ [](IsIdle # IsLoaded)
    /\ [][(IsIdle /\ n_clicks' = n_clicks) => IsIdle']_vars
    /\ [][(IsIdle /\ IsLoaded') => n_clicks' = n_clicks + 1]_vars
    /\ [][IsLoaded => IsLoaded']_vars
    /\ [](IsChart => n_clicks >= 1)
    /\ [][n_clicks' >= 1 => Recomputed(invocation')]_vars

\* What holds of C8's case: two states that exclude each other, Idle until
\* the first click, Loaded never left, a chart only after a click, a fetch in
\* every run after the first click and a projection only of a series with
\* points.
C8_IdleLoadedAfterAnyClick ==
    /\ IsIdle
    /\ [](IsIdle # IsLoaded)
    /\ [](n_clicks = 0 => IsIdle)
    /\ [][IsLoaded => IsLoaded']_vars
    /\ [](IsChart => n_clicks >= 1)
    /\ [][n_clicks' >= 1 =>
            /\ "fetch_stock_data" \in invocation'.calls
            /\ "simulate_future_prices" \in invocation'.calls => invocation'.data # <<>>]_vars

\* the price label shows a hover price that is no point of the shown figure,
\* the combined series of the run that wrote the label
StaleHoverShown ==
    /\ price_label.text = "Price on"
    /\ ~\E i \in 1..Len(figure.points) :
            /\ ~IsNaN(figure.points[i].y)
            /\ figure.points[i].x = price_label.date
            /\ Format2f(figure.points[i].y) = price_label.hundredths

\* C10: whenever the price label shows a hover price, its date and price are
\* a point of the combined series computed in the same run for the selected
\* symbol and period: after a change of symbol or period the label never
\* shows a hover recorded before the change.
C10_NoStaleHover ==
    [][(symbol' # symbol \/ period' # period) => ~StaleHoverShown']_vars

====
